---- MODULE Spec2Model ----
(***************************************************************************)
(* actix-service/src/apply_cfg.rs: apply_cfg_factory and the three-phase   *)
(* future ApplyConfigServiceFactoryResponse (State::A -> B -> C) that it   *)
(* returns, over one Rc<RefCell<(T, F)>> shared by the factory and every   *)
(* response it has handed out.                                             *)
(*                                                                         *)
(* One action is one top-level call made by the executor (new_service,     *)
(* poll, drop).  poll is modelled whole: its recursive self.poll(cx) calls *)
(* and the transform call it makes are part of the same step.  The inner   *)
(* factory's future, the inner service's poll_ready and the transform's    *)
(* future are code of the caller: what each returns is an input of the     *)
(* step.  A panic (a failed RefCell borrow, unwrap of None) unwinds out of *)
(* the top-level call; the code catches none, so no call follows it.       *)
(*                                                                         *)
(* Spec, SpecRepoll, SpecReentrant and SpecLive have one factory and keep  *)
(* its pair in store and borrow.  SpecShared has one adapter of either     *)
(* kind (apply_cfg or apply_cfg_factory) together with its clones, and     *)
(* keeps the pairs on a heap of allocations, cells, that handles and       *)
(* responses point into.                                                   *)
(***************************************************************************)
EXTENDS Integers, FiniteSets

\* ----------------------------------------------------------------- bounds
MaxResp == 2      \* responses created from the one factory
MaxDup == 2       \* handles of one adapter: the original and its clones
MaxCalls == 3     \* calls of ApplyConfigService::new_service

Resps == 1..MaxResp
Dups == 1..MaxDup
Configs == {"c1", "c2"}
ErrCodes == {1, 2}

\* ------------------------------------------------------------------ values
NoCfg == "None"                                  \* Option<C>::None
NoErr == [ty |-> "none", code |-> 0]
InitError(k) == [ty |-> "InitError", code |-> k]   \* T::InitError
SvcError(k) == [ty |-> "Error", code |-> k]        \* T::Error
NoFut == [cfg |-> NoCfg, svc |-> 0]

\* What a polled inner future / readiness check / transform future reports.
Pending == [tag |-> "Pending", err |-> NoErr]
Ready == [tag |-> "Ready", err |-> NoErr]
Failed(e) == [tag |-> "Err", err |-> e]

\* T::Future: Future<Output = Result<T::Service, T::InitError>>
AResults == {Pending, Ready} \cup {Failed(InitError(k)) : k \in ErrCodes}
\* T::Service::poll_ready: Poll<Result<(), T::Error>>
BResults == {Pending, Ready} \cup {Failed(SvcError(k)) : k \in ErrCodes}
\* R: Future<Output = Result<S, T::InitError>>
CResults == {Pending, Ready} \cup {Failed(InitError(k)) : k \in ErrCodes}

\* Poll<Result<S, T::InitError>> returned by the response's poll; "Panic" is
\* a call that unwound instead of returning, "Returned" a non-poll call.
PollPending == [tag |-> "Pending", err |-> NoErr, val |-> NoFut]
PollOk(v) == [tag |-> "Ok", err |-> NoErr, val |-> v]
PollErr(e) == [tag |-> "Err", err |-> e, val |-> NoFut]
PollPanic == [tag |-> "Panic", err |-> NoErr, val |-> NoFut]
Returned == [tag |-> "Returned", err |-> NoErr, val |-> NoFut]
\* A response that has produced no output yet.
NoOut == [tag |-> "None", err |-> NoErr, val |-> NoFut]

\* The `?` operator on Poll<Result<_, E>>: Err(e) leaves the function as
\* Err(From::from(e)).  The target is T::InitError.  From<T::InitError> for
\* T::InitError is the reflexive impl; From<T::Error> is the conversion the
\* bound `T::InitError: From<T::Error>` asks of the caller, here one that
\* threads the code through a distinct range.
From(e) == IF e.ty = "InitError" THEN e ELSE InitError(e.code + 10)

\* ------------------------------------------------------------------ RefCell
\* The borrow flag of the RefCell<(T, F)>: 0 unused, n > 0 shared borrows,
\* -1 one exclusive borrow.
CanBorrowMut_Unchecked(b) == TRUE
CanBorrowMut(b) == b = 0
CanBorrow(b) == b >= 0

\* The RefMut guard of poll's inner block goes out of scope at its closing
\* brace, the Ref temporary of new_service at the end of its expression.
DropRefMut_Leak(b) == b
DropRefMut(b) == 0
DropRef(b) == b - 1

VARIABLES
    resp,     \* the ApplyConfigServiceFactoryResponse values: cfg, state
    store,    \* the (T, F) pair inside the RefCell, by what each has done
    borrow,   \* the RefCell's borrow flag
    fault,    \* the panic that unwound the execution context, or "none"
    hist,     \* per response: what it was given and what it has done
    last,     \* the last top-level call: what its closure did, if it ran
    cells,    \* SpecShared: the Rc allocations, each a RefCell<(T, F)>
    dup,      \* SpecShared: per handle, the allocation its srv points to
    rstore,   \* SpecShared: per response, the allocation its store points to
    ilast     \* SpecShared: the last ApplyConfigService::new_service call

vars == <<resp, store, borrow, fault, hist, last, cells, dup, rstore, ilast>>

NoResp == [st |-> "none", cfg |-> NoCfg, fut |-> 0, srv |-> 0, cfut |-> NoFut]
NoHist ==
    [cfg0 |-> NoCfg, svc0 |-> 0, calls |-> 0, args |-> NoFut, rseen |-> {},
     fail |-> [at |-> "none", err |-> NoErr], out |-> NoOut, late |-> FALSE,
     pend |-> "none"]

\* An allocation: which adapter made it, the calls made on T (new_service
\* of an inner factory, poll_ready of an inner service) and on F, and the
\* RefCell's borrow flag.
NoCell == [kind |-> "none", t |-> 0, f |-> 0, borrow |-> 0]
\* A future made by the closure of an ApplyConfigService: the configuration
\* and the inner service (by its allocation) it was called with, and which
\* of the closure's calls made it.
NoIFut == [cfg |-> NoCfg, svc |-> 0, n |-> 0]
NoStore == [ptr |-> 0, via |-> 0]
NoILast ==
    [h |-> 0, cfg |-> NoCfg, beh |-> "plain", fut |-> NoIFut, calls |-> 0]

Live(R, r) == R[r].st \in {"A", "B", "C"}
Free(R) == {r \in Resps : R[r].st = "none"}
Min(S) == CHOOSE x \in S : \A y \in S : x <= y
Only(S) == CHOOSE x \in S : TRUE

\* The whole state as one value, threaded through the operators below.
Sys(R, S, b, f, H) ==
    [resp |-> R, store |-> S, borrow |-> b, fault |-> f, hist |-> H,
     ret |-> Returned, conflict |-> FALSE]

Panic(s, why) == [s EXCEPT !.fault = why, !.ret = PollPanic]

\* Return from poll: the first Ready value a response returns is its output.
Return(s, r, v) ==
    [s EXCEPT !.ret = v,
              !.hist[r].out = IF @ = NoOut /\ v.tag \in {"Ok", "Err"}
                              THEN v ELSE @]

\* What the operation polled in the response's state reported: the results
\* of the readiness check, the failure (with its phase) reported to a
\* response that had not produced its output, and for such a response the
\* phase whose operation reported Pending to the poll in progress.
Observed(s, r, env) ==
    LET st == s.resp[r].st
        res == CASE st = "A" -> env.a [] st = "B" -> env.b [] st = "C" -> env.c
    IN [s EXCEPT !.hist[r].rseen = IF st = "B" THEN @ \cup {res.tag} ELSE @,
                 !.hist[r].fail = IF res.tag = "Err" /\ @.at = "none"
                                     /\ s.hist[r].out = NoOut
                                  THEN [at |-> st, err |-> res.err] ELSE @,
                 !.hist[r].pend = IF s.hist[r].out # NoOut THEN @
                                  ELSE IF res.tag = "Pending" THEN st
                                  ELSE "none"]

\* Option::take: the value, and what it leaves in the field.
take_Clone(o) == [val |-> o, left |-> o]
take(o) == [val |-> o, left |-> NoCfg]

\* ------------------------------------------------------------- new_service
\* ApplyConfigServiceFactory::new_service(&self, cfg): the struct literal
\* stores Some(cfg), clones the Rc, and calls the inner factory's
\* new_service(()) through a shared borrow that ends with the expression.
\* The response takes the lowest unused slot; the inner factory's n-th
\* future is the one that yields inner service n.
new_service_Lazy(s, c) ==
    LET r == Min(Free(s.resp))
    IN [s EXCEPT !.resp[r] = [NoResp EXCEPT !.st = "A", !.cfg = c,
                                            !.fut = s.store.factory + 1],
                 !.hist[r] = [NoHist EXCEPT !.cfg0 = c,
                                            !.svc0 = s.store.factory + 1],
                 !.ret = Returned]
new_service_Cached(s, c) ==
    LET r == Min(Free(s.resp))
        n == IF s.store.factory = 0 THEN 1 ELSE s.store.factory
    IN [s EXCEPT !.store.factory = n,
                 !.resp[r] = [NoResp EXCEPT !.st = "A", !.cfg = c, !.fut = n],
                 !.hist[r] = [NoHist EXCEPT !.cfg0 = c, !.svc0 = n],
                 !.ret = Returned]
new_service(s, c) ==
    LET r == Min(Free(s.resp))
        s0 == [s EXCEPT !.conflict = @ \/ s.borrow = -1]
    IN IF ~CanBorrow(s.borrow)
       THEN Panic(s0, "BorrowError")
       ELSE LET n == s.store.factory + 1
            IN [s0 EXCEPT !.borrow = DropRef(s.borrow + 1),
                          !.store.factory = n,
                          !.resp[r] = [NoResp EXCEPT !.st = "A", !.cfg = c,
                                                     !.fut = n],
                          !.hist[r] = [NoHist EXCEPT !.cfg0 = c, !.svc0 = n],
                          !.ret = Returned]

\* -------------------------------------------------------------------- poll
\* What the transform closure does besides building its future.  "plain":
\* nothing.  "new_service": it calls new_service on a clone of the factory
\* it is stored in.  "poll": it polls another response of the same factory.
PlainBeh == [kind |-> "plain", r |-> 0, cfg |-> NoCfg]
Reentrant(R, r) ==
    {[kind |-> "new_service", r |-> 0, cfg |-> c] : c \in Configs}
        \cup {[kind |-> "poll", r |-> q, cfg |-> NoCfg] : q \in Resps \ {r}}

RECURSIVE poll(_, _, _, _)

FnBody(s, beh, env) ==
    CASE beh.kind = "plain" -> s
      [] beh.kind = "new_service" -> new_service(s, beh.cfg)
      [] beh.kind = "poll" -> poll(s, beh.r, env.n, PlainBeh)

\* State::C(fut) => fut.poll(cx)
pollC_Wrap(s, r, env) ==
    IF env.c.tag = "Err" THEN Return(s, r, PollErr(env.c.err))
    ELSE IF env.c.tag = "Pending" THEN Return(s, r, PollPending)
    ELSE Return(s, r, PollOk([cfg |-> s.resp[r].cfut.cfg, svc |-> 0]))
pollC_Retry(s, r, env) ==
    IF env.c.tag = "Err"
    THEN Return([s EXCEPT !.store.factory = @ + 1,
                          !.resp[r].st = "A",
                          !.resp[r].fut = s.store.factory + 1,
                          !.resp[r].cfut = NoFut],
                r, PollPending)
    ELSE IF env.c.tag = "Pending" THEN Return(s, r, PollPending)
    ELSE Return(s, r, PollOk(s.resp[r].cfut))
pollC(s, r, env) ==
    IF env.c.tag = "Err" THEN Return(s, r, PollErr(env.c.err))
    ELSE IF env.c.tag = "Pending" THEN Return(s, r, PollPending)
    ELSE Return(s, r, PollOk(s.resp[r].cfut))

\* The Poll::Ready arm of State::B: the block that borrows the store,
\* takes the configuration and calls the closure, then self.poll(cx).
\* A panic inside the block unwinds through it: the RefMut guard, once
\* created, is dropped, the state is not set.
transform_NoAdvance(s, r, env, beh) ==
    LET arg == [cfg |-> s.resp[r].cfg, svc |-> s.resp[r].srv]
        s1 == [s EXCEPT !.store.closure = @ + 1,
                        !.hist[r].calls = @ + 1,
                        !.hist[r].args = arg]
    IN IF env.c.tag = "Err" THEN Return(s1, r, PollErr(env.c.err))
       ELSE IF env.c.tag = "Pending" THEN Return(s1, r, PollPending)
       ELSE Return(s1, r, PollOk(arg))
transform_KeepSrv(s, r, env, beh) ==
    LET s0 == [s EXCEPT !.conflict = @ \/ s.borrow # 0]
        cfg == take(s.resp[r].cfg)
    IN IF ~CanBorrowMut(s.borrow)
       THEN Panic(s0, "BorrowMutError")
       ELSE IF cfg.val = NoCfg
       THEN Panic([s0 EXCEPT !.borrow = DropRefMut(-1)], "UnwrapNone")
       ELSE LET arg == [cfg |-> cfg.val, svc |-> s.resp[r].srv]
                s1 == [s0 EXCEPT !.borrow = -1,
                                 !.resp[r].cfg = cfg.left,
                                 !.store.closure = @ + 1,
                                 !.hist[r].calls = @ + 1,
                                 !.hist[r].args = arg]
                s2 == FnBody(s1, beh, env)
            IN IF s2.fault # "none"
               THEN [s2 EXCEPT !.borrow = DropRefMut(@)]
               ELSE poll([s2 EXCEPT !.resp[r].st = "C",
                                    !.resp[r].cfut = arg,
                                    !.borrow = DropRefMut(@)],
                         r, env, beh)
transform(s, r, env, beh) ==
    LET s0 == [s EXCEPT !.conflict = @ \/ s.borrow # 0]
        cfg == take(s.resp[r].cfg)
    IN IF ~CanBorrowMut(s.borrow)
       THEN Panic(s0, "BorrowMutError")
       ELSE IF cfg.val = NoCfg
       THEN Panic([s0 EXCEPT !.borrow = DropRefMut(-1)], "UnwrapNone")
       ELSE LET arg == [cfg |-> cfg.val, svc |-> s.resp[r].srv]
                s1 == [s0 EXCEPT !.borrow = -1,
                                 !.resp[r].cfg = cfg.left,
                                 !.store.closure = @ + 1,
                                 !.hist[r].calls = @ + 1,
                                 !.hist[r].args = arg]
                s2 == FnBody(s1, beh, env)
            IN IF s2.fault # "none"
               THEN [s2 EXCEPT !.borrow = DropRefMut(@)]
               ELSE poll([s2 EXCEPT !.resp[r].st = "C",
                                    !.resp[r].srv = 0,
                                    !.resp[r].cfut = arg,
                                    !.borrow = DropRefMut(@)],
                         r, env, beh)

\* State::B(srv) => match srv.poll_ready(cx)?
pollB_ReadyOnPending(s, r, env, beh) ==
    IF env.b.tag = "Err" THEN Return(s, r, PollErr(From(env.b.err)))
    ELSE transform(s, r, env, beh)
pollB_ErrFallsThrough(s, r, env, beh) ==
    IF env.b.tag = "Pending" THEN Return(s, r, PollPending)
    ELSE transform(s, r, env, beh)
pollB_NoTransform(s, r, env, beh) ==
    IF env.b.tag = "Err" THEN Return(s, r, PollErr(From(env.b.err)))
    ELSE Return(s, r, PollPending)
pollB(s, r, env, beh) ==
    IF env.b.tag = "Err" THEN Return(s, r, PollErr(From(env.b.err)))
    ELSE IF env.b.tag = "Pending" THEN Return(s, r, PollPending)
    ELSE transform(s, r, env, beh)

\* State::A(fut) => match fut.poll(cx)?
pollA_SkipB(s, r, env, beh) ==
    IF env.a.tag = "Err" THEN Return(s, r, PollErr(From(env.a.err)))
    ELSE IF env.a.tag = "Pending" THEN Return(s, r, PollPending)
    ELSE transform([s EXCEPT !.resp[r].st = "B",
                             !.resp[r].srv = s.resp[r].fut,
                             !.resp[r].fut = 0],
                   r, env, beh)
pollA_SwallowErr(s, r, env, beh) ==
    IF env.a.tag # "Ready" THEN Return(s, r, PollPending)
    ELSE poll([s EXCEPT !.resp[r].st = "B", !.resp[r].srv = s.resp[r].fut,
                        !.resp[r].fut = 0],
              r, env, beh)
pollA_LatestSrv(s, r, env, beh) ==
    IF env.a.tag = "Err" THEN Return(s, r, PollErr(From(env.a.err)))
    ELSE IF env.a.tag = "Pending" THEN Return(s, r, PollPending)
    ELSE poll([s EXCEPT !.resp[r].st = "B", !.resp[r].srv = s.store.factory,
                        !.resp[r].fut = 0],
              r, env, beh)
pollA_Yield(s, r, env, beh) ==
    IF env.a.tag = "Err" THEN Return(s, r, PollErr(From(env.a.err)))
    ELSE IF env.a.tag = "Pending" THEN Return(s, r, PollPending)
    ELSE Return([s EXCEPT !.resp[r].st = "B", !.resp[r].srv = s.resp[r].fut,
                          !.resp[r].fut = 0],
                r, PollPending)
pollA(s, r, env, beh) ==
    IF env.a.tag = "Err" THEN Return(s, r, PollErr(From(env.a.err)))
    ELSE IF env.a.tag = "Pending" THEN Return(s, r, PollPending)
    ELSE poll([s EXCEPT !.resp[r].st = "B", !.resp[r].srv = s.resp[r].fut,
                        !.resp[r].fut = 0],
              r, env, beh)

\* <ApplyConfigServiceFactoryResponse as Future>::poll
\* (the state after Observed is bound as a value, so that it is evaluated
\* once per call of poll)
poll(s, r, env, beh) ==
    Only({CASE s0.resp[r].st = "A" -> pollA(s0, r, env, beh)
            [] s0.resp[r].st = "B" -> pollB(s0, r, env, beh)
            [] s0.resp[r].st = "C" -> pollC(s0, r, env) :
          s0 \in {Observed(s, r, env)}})

\* ------------------------------------------------------------ drop
\* Dropping the response drops its fields: the configuration if still
\* held, the Rc clone, and the payload of its state.
drop_Finish(s, r) ==
    [s EXCEPT !.resp[r] = [NoResp EXCEPT !.st = "dropped"],
              !.store.closure = IF s.resp[r].st = "B" THEN @ + 1 ELSE @,
              !.hist[r] = [NoHist EXCEPT !.calls =
                              IF s.resp[r].st = "B" THEN s.hist[r].calls + 1
                              ELSE s.hist[r].calls],
              !.ret = Returned]
drop(s, r) ==
    [s EXCEPT !.resp[r] = [NoResp EXCEPT !.st = "dropped"],
              !.hist[r] = [NoHist EXCEPT !.calls = s.hist[r].calls],
              !.ret = Returned]

\* ------------------------------------------------------------------ Clone
\* Clone for ApplyConfigService and for ApplyConfigServiceFactory: the new
\* handle's srv is self.srv.clone(), an Rc to the allocation of the handle
\* cloned.  H is the heap: the allocations and the handles' pointers.
clone_DeepCopy(H, h) ==
    LET n == Min({d \in Dups : H.dup[d] = 0})
        p == Min({c \in Dups : H.cells[c].kind = "none"})
    IN [H EXCEPT !.dup[n] = p, !.cells[p] = H.cells[H.dup[h]]]
clone(H, h) ==
    LET n == Min({d \in Dups : H.dup[d] = 0})
    IN [H EXCEPT !.dup[n] = H.dup[h]]

\* ------------------------------------------- ApplyConfigService::new_service
\* let (t, f) = &mut *self.srv.borrow_mut(); f(cfg, t)
\* on the allocation p with contents cell.  The closure either only builds
\* its future ("plain") or first calls new_service on a clone of the
\* adapter it is stored in ("new_service").  A panic unwinds through the
\* RefMut guard, which is dropped.
RECURSIVE ApplyConfigService_new_service(_, _, _, _)
ApplyConfigService_new_service_CheckReady(cell, p, c, beh) ==
    IF ~CanBorrowMut(cell.borrow)
    THEN [cell |-> cell, fut |-> NoIFut, fault |-> "BorrowMutError"]
    ELSE [cell |-> [cell EXCEPT !.t = @ + 1, !.f = @ + 1,
                                !.borrow = DropRefMut(-1)],
          fut |-> [cfg |-> c, svc |-> p, n |-> cell.f + 1],
          fault |-> "none"]
ApplyConfigService_new_service(cell, p, c, beh) ==
    IF ~CanBorrowMut(cell.borrow)
    THEN [cell |-> cell, fut |-> NoIFut, fault |-> "BorrowMutError"]
    ELSE LET c1 == [cell EXCEPT !.borrow = -1, !.f = @ + 1]
             made == [cfg |-> c, svc |-> p, n |-> c1.f]
             body == IF beh = "plain"
                     THEN [cell |-> c1, fut |-> NoIFut, fault |-> "none"]
                     ELSE ApplyConfigService_new_service(c1, p, c, "plain")
         IN [cell |-> [body.cell EXCEPT !.borrow = DropRefMut(@)],
             fut |-> IF body.fault = "none" THEN made ELSE NoIFut,
             fault |-> body.fault]

\* ------------------------------------------------------------ the inputs
\* What the futures and the readiness check a poll reaches report: only
\* the ones the poll gets to are chosen, the others are fixed.
Envs(st) ==
    {e \in [a : IF st = "A" THEN AResults ELSE {Pending},
            b : IF st = "C" THEN {Pending} ELSE BResults,
            c : CResults] :
        /\ (st = "A" /\ e.a # Ready) => e.b = Pending
        /\ (st # "C" /\ e.b # Ready) => e.c = Pending}
NoEnv == [a |-> Pending, b |-> Pending, c |-> Pending]
WithNested(e, n) == [a |-> e.a, b |-> e.b, c |-> e.c, n |-> n]

\* The inputs of a poll whose construction future and readiness check do
\* not fail, and what the operation of the state polled first reports.
LiveEnvs(st) == {e \in Envs(st) : e.a.tag # "Err" /\ e.b.tag # "Err"}
Cur(st, e) == CASE st = "A" -> e.a [] st = "B" -> e.b [] st = "C" -> e.c

\* ------------------------------------------------------------------ state
Init ==
    /\ resp = [r \in Resps |-> NoResp]
    /\ store = [factory |-> 0, closure |-> 0]
    /\ borrow = 0
    /\ fault = "none"
    /\ hist = [r \in Resps |-> NoHist]
    /\ last = [beh |-> "plain", conflict |-> FALSE]
    /\ cells = [p \in Dups |-> NoCell]
    /\ dup = [h \in Dups |-> 0]
    /\ rstore = [r \in Resps |-> NoStore]
    /\ ilast = NoILast

\* apply_cfg(srv, f) or apply_cfg_factory(srv, f) has put (srv, f) into a
\* new allocation, and the adapter returned is handle 1.
InitShared ==
    /\ resp = [r \in Resps |-> NoResp]
    /\ store = [factory |-> 0, closure |-> 0]
    /\ borrow = 0
    /\ fault = "none"
    /\ hist = [r \in Resps |-> NoHist]
    /\ last = [beh |-> "plain", conflict |-> FALSE]
    /\ \E k \in {"service", "factory"} :
          cells = [p \in Dups |->
                      IF p = 1 THEN [NoCell EXCEPT !.kind = k] ELSE NoCell]
    /\ dup = [h \in Dups |-> IF h = 1 THEN 1 ELSE 0]
    /\ rstore = [r \in Resps |-> NoStore]
    /\ ilast = NoILast

Now == Sys(resp, store, borrow, fault, hist)

Commit(s, beh) ==
    \E t \in {s} :
        /\ resp' = t.resp
        /\ store' = t.store
        /\ borrow' = t.borrow
        /\ fault' = t.fault
        /\ hist' = t.hist
        /\ last' = [beh |-> beh, conflict |-> t.conflict]
        /\ UNCHANGED <<cells, dup, rstore, ilast>>

\* The state as seen through the allocation p of a factory adapter, and
\* the result of a call made through handle h written back to it; a
\* response created by the call holds a clone of the handle's Rc.
NowAt(p) ==
    Sys(resp, [factory |-> cells[p].t, closure |-> cells[p].f],
        cells[p].borrow, fault, hist)
CommitAt(s, p, h) ==
    \E t \in {s} :
        /\ resp' = t.resp
        /\ fault' = t.fault
        /\ hist' = t.hist
        /\ cells' = [cells EXCEPT ![p] = [@ EXCEPT !.t = t.store.factory,
                                                  !.f = t.store.closure,
                                                  !.borrow = t.borrow]]
        /\ rstore' = [r \in Resps |->
                         IF resp[r].st = "none" /\ t.resp[r].st # "none"
                         THEN [ptr |-> p, via |-> h] ELSE rstore[r]]
        /\ UNCHANGED <<store, borrow, last, dup, ilast>>

\* The executor calls new_service(cfg) on the factory.  The code never
\* looks into a configuration, so the values are interchangeable and the
\* first one supplied is called "c1"; later ones may equal it or differ.
NewService(c) ==
    /\ fault = "none"
    /\ Free(resp) # {}
    /\ store.factory = 0 => c = "c1"
    /\ Commit(new_service(Now, c), "plain")

\* The executor polls a response that has not produced its output.
Poll(r) ==
    /\ fault = "none"
    /\ Live(resp, r)
    /\ hist[r].out = NoOut
    /\ \E e \in Envs(resp[r].st) :
          Commit(poll(Now, r, WithNested(e, NoEnv), PlainBeh), "plain")

\* The executor drops a response.
Drop(r) ==
    /\ fault = "none"
    /\ Live(resp, r)
    /\ Commit(drop(Now, r), "plain")

\* The executor polls a response once more after it has produced its
\* output.
LatePoll(r) ==
    /\ fault = "none"
    /\ Live(resp, r)
    /\ hist[r].out # NoOut
    /\ ~hist[r].late
    /\ \E e \in Envs(resp[r].st) :
          Commit(poll([Now EXCEPT !.hist[r].late = TRUE], r,
                      WithNested(e, NoEnv), PlainBeh), "plain")

\* The executor polls a response while the operation of its state is still
\* pending, and once that operation has completed.
Stall(r) ==
    /\ fault = "none"
    /\ Live(resp, r)
    /\ hist[r].out = NoOut
    /\ \E e \in {x \in LiveEnvs(resp[r].st) : Cur(resp[r].st, x) = Pending} :
          Commit(poll(Now, r, WithNested(e, NoEnv), PlainBeh), "plain")
Advance(r) ==
    /\ fault = "none"
    /\ Live(resp, r)
    /\ hist[r].out = NoOut
    /\ \E e \in {x \in LiveEnvs(resp[r].st) : Cur(resp[r].st, x) # Pending} :
          Commit(poll(Now, r, WithNested(e, NoEnv), PlainBeh), "plain")

\* A handle of the adapter is cloned.
CloneHandle(h) ==
    /\ fault = "none"
    /\ dup[h] # 0
    /\ \E d \in Dups : dup[d] = 0
    /\ \E H \in {clone([cells |-> cells, dup |-> dup], h)} :
          cells' = H.cells /\ dup' = H.dup
    /\ UNCHANGED <<resp, store, borrow, fault, hist, last, rstore, ilast>>

\* new_service(c) is called on handle h of an ApplyConfigService, with a
\* closure that only builds its future, or with one that calls
\* new_service on a clone of the adapter while it runs.
ServiceCall(h, c, beh) ==
    /\ fault = "none"
    /\ dup[h] # 0
    /\ cells[dup[h]].kind = "service"
    /\ ilast.calls < MaxCalls
    /\ \E o \in {ApplyConfigService_new_service(cells[dup[h]], dup[h],
                                                c, beh)} :
          /\ cells' = [cells EXCEPT ![dup[h]] = o.cell]
          /\ fault' = o.fault
          /\ ilast' = [h |-> h, cfg |-> c, beh |-> beh, fut |-> o.fut,
                       calls |-> ilast.calls + 1]
    /\ UNCHANGED <<resp, store, borrow, hist, last, dup, rstore>>
ServiceNewService(h, c) == ServiceCall(h, c, "plain")
ServiceReentrant(h, c) == ServiceCall(h, c, "new_service")

\* new_service(c) is called on handle h of an ApplyConfigServiceFactory,
\* and a response it has created is polled.
FactoryNewService(h, c) ==
    /\ fault = "none"
    /\ dup[h] # 0
    /\ cells[dup[h]].kind = "factory"
    /\ Free(resp) # {}
    /\ Free(resp) = Resps => c = "c1"
    /\ CommitAt(new_service(NowAt(dup[h]), c), dup[h], h)
FactoryPoll(r) ==
    /\ fault = "none"
    /\ Live(resp, r)
    /\ hist[r].out = NoOut
    /\ \E e \in LiveEnvs(resp[r].st) :
          CommitAt(poll(NowAt(rstore[r].ptr), r, WithNested(e, NoEnv),
                        PlainBeh),
                   rstore[r].ptr, rstore[r].via)

\* A poll that reaches the transform, with a closure that calls back into
\* the factory or into another response while it runs.
CanReenter(beh) ==
    IF beh.kind = "new_service" THEN Free(resp) # {}
    ELSE Live(resp, beh.r) /\ hist[beh.r].out = NoOut
ReentrantPoll(r) ==
    /\ fault = "none"
    /\ Live(resp, r)
    /\ hist[r].out = NoOut
    /\ \E beh \in Reentrant(resp, r) :
          /\ CanReenter(beh)
          /\ \E e \in {x \in Envs(resp[r].st) : x.b = Ready} :
             \E n \in IF beh.kind = "poll" THEN Envs(resp[beh.r].st)
                      ELSE {NoEnv} :
                LET s1 == poll(Now, r, WithNested(e, n), beh)
                IN /\ s1.hist[r].calls > hist[r].calls
                   /\ Commit(s1, beh.kind)

Next ==
    \/ \E c \in Configs : NewService(c)
    \/ \E r \in Resps : Poll(r)
    \/ \E r \in Resps : Drop(r)

NextRepoll ==
    \/ Next
    \/ \E r \in Resps : LatePoll(r)

NextReentrant ==
    \/ Next
    \/ \E r \in Resps : ReentrantPoll(r)

NextLive ==
    \/ \E c \in Configs : NewService(c)
    \/ \E r \in Resps : Stall(r)
    \/ \E r \in Resps : Advance(r)

NextShared ==
    \/ \E h \in Dups : CloneHandle(h)
    \/ \E h \in Dups, c \in Configs : ServiceNewService(h, c)
    \/ \E h \in Dups, c \in Configs : ServiceReentrant(h, c)
    \/ \E h \in Dups, c \in Configs : FactoryNewService(h, c)
    \/ \E r \in Resps : FactoryPoll(r)

\* Polls stop at the output and the closure does not call back.
Spec == Init /\ [][Next]_vars
\* Responses may also be polled again after their output.
SpecRepoll == Init /\ [][NextRepoll]_vars
\* Polls stop at the output, and the closure may call back into the
\* factory and its responses.
SpecReentrant == Init /\ [][NextReentrant]_vars

\* No response is dropped, the construction future and the readiness check
\* do not fail, every operation a response waits for completes, and the
\* response is polled again after it has: a poll that finds the operation
\* of the response's state completed is not postponed for ever.
SpecLive ==
    Init /\ [][NextLive]_vars /\ \A r \in Resps : WF_vars(Advance(r))

\* One adapter of either kind with its clones, the pairs kept on the heap
\* cells: calls are made through any handle, one after the other.
SpecShared == InitShared /\ [][NextShared]_vars

\* -------------------------------------------------------------- properties
Ord(st) ==
    CASE st = "none" -> 0 [] st = "A" -> 1 [] st = "B" -> 2 [] st = "C" -> 3
      [] st = "dropped" -> 4

\* C1: within one response the phases occur in the order A, B, C: the state
\* never moves backwards; a response is in B only with the inner service its
\* own construction future produced; the readiness check is called only
\* once that service exists; C is entered, and the transform invoked, only
\* after the readiness check of that service has returned ready.
C1_PhaseOrder ==
    [][\A r \in Resps :
          /\ Ord(resp[r].st) <= Ord(resp'[r].st)
          /\ resp[r].st = "none" => resp'[r].st \in {"none", "A"}
          /\ resp'[r].st = "B" =>
                resp'[r].srv = hist'[r].svc0 /\ resp'[r].srv # 0
          /\ hist'[r].rseen # {} => resp'[r].st \in {"B", "C"}
          /\ resp'[r].st = "C" =>
                /\ "Ready" \in hist'[r].rseen
                /\ hist'[r].args.svc = hist'[r].svc0
          /\ (Live(resp', r) /\ hist'[r].calls > 0) =>
                resp'[r].st = "C" /\ "Ready" \in hist'[r].rseen]_vars

C1_Witness ==
    \E r \in Resps :
        resp[r].st = "C" /\ hist[r].rseen = {"Pending", "Ready"}

\* C2: the transform is invoked at most once per response, exactly once for
\* a response whose output is a success, also when the response is polled
\* again after its output.
C2_TransformOnce ==
    \A r \in Resps :
        /\ hist[r].calls <= 1
        /\ hist[r].out.tag = "Ok" => hist[r].calls = 1 /\ resp[r].st = "C"

C2_Witness ==
    \E r \in Resps :
        hist[r].out.tag = "Ok" /\ hist[r].late /\ hist[r].calls = 1

\* C3: when the inner factory's future fails with Ex, the response's output
\* is the failure Ex in the adapter's error type (the same value: the types
\* coincide), the readiness check is never called and the transform is not
\* invoked.
C3_ConstructionFailure ==
    \A r \in Resps :
        hist[r].fail.at = "A" =>
            /\ resp[r].st = "A"
            /\ hist[r].out = PollErr(hist[r].fail.err)
            /\ hist[r].out.err.ty = "InitError"
            /\ hist[r].rseen = {}
            /\ hist[r].calls = 0

C3_Witness ==
    \E r \in Resps :
        hist[r].fail.at = "A" /\ hist[r].out.tag = "Err" /\ resp[r].st = "A"

\* C4: when the readiness check fails, the same poll returns that error
\* converted to the adapter's error type; the response stays in B with its
\* configuration, C is not entered and the transform is not invoked.
C4_ReadinessFailure ==
    \A r \in Resps :
        hist[r].fail.at = "B" =>
            /\ resp[r].st = "B"
            /\ hist[r].out = PollErr(From(hist[r].fail.err))
            /\ hist[r].fail.err.ty = "Error"
            /\ hist[r].out.err.ty = "InitError"
            /\ hist[r].calls = 0
            /\ resp[r].cfg = hist[r].cfg0

C4_Witness ==
    \E r \in Resps :
        hist[r].fail.at = "B" /\ hist[r].out.tag = "Err" /\ resp[r].st = "B"

C6_ConflictFaults ==
    [][/\ last'.conflict =>
             /\ fault' \in {"BorrowError", "BorrowMutError"}
             /\ store' = [store EXCEPT !.closure = @ + 1]
       /\ last'.beh = "new_service" => fault' = "BorrowError"
       /\ store'.closure <= store.closure + 1
       /\ store'.factory <= store.factory + 1
       /\ last'.beh # "plain" => store'.factory = store.factory]_vars

C6_Witness == last.conflict /\ last.beh = "poll" /\ fault = "BorrowMutError"

\* C7: with polls run one at a time and a closure that does not call back,
\* the store is never left borrowed and no borrow conflict occurs.
C7_NoBorrowConflict == borrow = 0 /\ fault = "none" /\ ~last.conflict

C7_Witness ==
    \E r, q \in Resps :
        /\ r # q
        /\ hist[r].calls = 1 /\ hist[q].calls = 1
        /\ "Pending" \in hist[r].rseen /\ "Pending" \in hist[q].rseen

\* C8 as stated: new_service does not touch the store.
C8_Original ==
    [][(\E r \in Resps : resp[r].st = "none" /\ resp'[r].st = "A") =>
          store' = store]_vars

\* C8, amended: new_service invokes the inner factory once, through a
\* shared borrow that has ended when it returns; it does not invoke the
\* closure, and the new response holds the configuration in state A with
\* that factory call's future; no other response changes.
C8_SharedBorrowOnly ==
    [][\A r \in Resps :
          (resp[r].st = "none" /\ resp'[r].st = "A") =>
              /\ store'.factory = store.factory + 1
              /\ store'.closure = store.closure
              /\ borrow' = borrow
              /\ fault' = "none"
              /\ resp'[r].cfg \in Configs
              /\ resp'[r].fut = store'.factory
              /\ hist'[r].calls = 0
              /\ \A q \in Resps \ {r} : resp'[q] = resp[q]]_vars

C8_Witness ==
    /\ store.factory = MaxResp
    /\ store.closure = 0
    /\ \A r \in Resps : resp[r].st = "A" /\ hist[r].out = NoOut

\* C9: the transform of each response receives that response's own
\* configuration and the inner service of its own construction future, and
\* a successful output is built from them; a step changes one response.
C9_Isolation ==
    [][/\ \A r \in Resps :
             /\ (Live(resp', r) /\ hist'[r].calls = 1) =>
                   hist'[r].args =
                       [cfg |-> hist'[r].cfg0, svc |-> hist'[r].svc0]
             /\ resp'[r].st = "C" => resp'[r].cfut = hist'[r].args
             /\ hist'[r].out.tag = "Ok" =>
                   hist'[r].out.val =
                       [cfg |-> hist'[r].cfg0, svc |-> hist'[r].svc0]
       /\ \A r, q \in Resps :
             (r # q /\ Live(resp', r) /\ Live(resp', q)) =>
                 hist'[r].svc0 # hist'[q].svc0
       /\ \A r, q \in Resps :
             (r # q /\ <<resp'[r], hist'[r]>> # <<resp[r], hist[r]>>) =>
                 <<resp'[q], hist'[q]>> = <<resp[q], hist[q]>>]_vars

C9_Witness ==
    \E r, q \in Resps :
        /\ hist[r].cfg0 # hist[q].cfg0
        /\ hist[q].out.tag = "Err"
        /\ hist[r].out = PollOk([cfg |-> hist[r].cfg0, svc |-> hist[r].svc0])

\* C10: while the readiness check has not returned ready the transform is
\* not invoked and the response does not succeed; while it has only
\* returned pending, the response has produced no output.
C10_NeverReady ==
    \A r \in Resps :
        Live(resp, r) =>
            /\ "Ready" \notin hist[r].rseen =>
                  /\ hist[r].calls = 0
                  /\ resp[r].st # "C"
                  /\ hist[r].out.tag # "Ok"
            /\ (resp[r].st = "B" /\ hist[r].rseen \subseteq {"Pending"}) =>
                  hist[r].out = NoOut

C10_Witness ==
    \E r \in Resps :
        resp[r].st = "B" /\ hist[r].rseen = {"Pending"} /\ hist[r].out = NoOut

\* C11: a poll returns Pending only when the operation of the phase the
\* response is then in reported Pending to that poll.  A response without
\* its output therefore rests in State::B or State::C only where the
\* readiness check or the transform future reported Pending, and in
\* State::A only before its first poll or where the construction future
\* reported Pending: a completed phase is followed within the same poll.
C11_NoVoluntaryYield ==
    \A r \in Resps :
        (Live(resp, r) /\ hist[r].out = NoOut /\ fault = "none") =>
            /\ hist[r].pend \in {resp[r].st, "none"}
            /\ hist[r].pend = "none" =>
                  (resp[r].st = "A" /\ hist[r].rseen = {})
            /\ resp[r].st = "C" => "Ready" \in hist[r].rseen

\* Polls carried a response through a readiness check that reported Ready
\* at once, into the transform future, which reported Pending.
C11_Witness ==
    \E r \in Resps :
        /\ resp[r].st = "C"
        /\ hist[r].out = NoOut
        /\ hist[r].pend = "C"
        /\ hist[r].rseen = {"Ready"}

\* The responses the factory has created so far.
Created == {r \in Resps : resp[r].st # "none"}

\* C12: a failure of the transform future is the response's result as the
\* future produced it, and nothing is retried: the response stays in
\* State::C, its closure has been called once, and the inner factory has
\* been called once for it (once per response created, the response's own
\* call among them).
C12_TransformFutureFailure ==
    \A r \in Resps :
        hist[r].fail.at = "C" =>
            /\ resp[r].st = "C"
            /\ hist[r].out = PollErr(hist[r].fail.err)
            /\ hist[r].calls = 1
            /\ hist[r].svc0 \in 1..store.factory
            /\ store.factory = Cardinality(Created)

\* The transform future of a response failed.
C12_Witness ==
    \E r \in Resps :
        /\ hist[r].fail.at = "C"
        /\ hist[r].out.tag = "Err"
        /\ resp[r].st = "C"

\* C15: dropping a response in State::A, B or C leaves the store as it was
\* and not borrowed, unwinds nothing, and changes no other response; the
\* closure has not been called for a response dropped in State::A or B,
\* and a dropped response does nothing afterwards.
C15_DropIsSafe ==
    [][\A r \in Resps :
          /\ (Live(resp, r) /\ resp'[r].st = "dropped") =>
                /\ store' = store
                /\ borrow' = borrow /\ borrow' = 0
                /\ fault' = "none"
                /\ \A q \in Resps \ {r} :
                      resp'[q] = resp[q] /\ hist'[q] = hist[q]
                /\ hist'[r].calls = hist[r].calls
                /\ resp[r].st \in {"A", "B"} => hist'[r].calls = 0
          /\ resp[r].st = "dropped" =>
                resp'[r] = resp[r] /\ hist'[r] = hist[r]]_vars

\* A response was dropped before its closure was called, and another
\* response of the same factory has completed.
C15_Witness ==
    \E r \in Resps :
        /\ resp[r].st = "dropped"
        /\ hist[r].calls = 0
        /\ \E q \in Resps \ {r} :
              resp[q].st = "C" /\ hist[q].out.tag = "Ok"

\* C17: the inner factory has been called once for every response the
\* factory has created, whatever was polled, completed, failed or dropped
\* since; the call is made by new_service itself, so a response not yet
\* polled already holds its construction future; and every response has
\* the result of its own call, none of them that of another.
C17_FactoryCallPerInvocation ==
    /\ store.factory = Cardinality(Created)
    /\ \A r \in Resps :
          /\ resp[r].st = "A" =>
                resp[r].fut = hist[r].svc0 /\ resp[r].fut \in 1..store.factory
          /\ \A q \in Resps \ {r} :
                (Live(resp, r) /\ Live(resp, q)) => hist[r].svc0 # hist[q].svc0

\* Two invocations, one response dropped, the other not polled yet.
C17_Witness ==
    /\ store.factory = 2
    /\ \E r \in Resps :
          /\ resp[r].st = "dropped"
          /\ \E q \in Resps \ {r} :
                resp[q].st = "A" /\ hist[q].pend = "none"

\* What a response holds in its state field.
Held(r) ==
    {k \in {"fut", "srv", "cfut"} :
        \/ k = "fut" /\ resp[r].fut # 0
        \/ k = "srv" /\ resp[r].srv # 0
        \/ k = "cfut" /\ resp[r].cfut # NoFut}

\* C19: a response holds the construction future in State::A only, the
\* inner service (the one its own future yielded) in State::B only, and
\* the transform future in State::C only, so never two of them; the
\* closure was lent exactly the service held in State::B, and a response
\* in State::C, its result returned or not, holds no inner service.
C19_ServiceHeldInPhaseTwoOnly ==
    \A r \in Resps :
        /\ Held(r) = CASE resp[r].st = "A" -> {"fut"}
                        [] resp[r].st = "B" -> {"srv"}
                        [] resp[r].st = "C" -> {"cfut"}
                        [] OTHER -> {}
        /\ resp[r].st = "B" => resp[r].srv = hist[r].svc0
        /\ resp[r].st = "C" =>
              /\ resp[r].srv = 0
              /\ hist[r].args.svc = hist[r].svc0
              /\ resp[r].cfut = hist[r].args

\* A response in State::C has returned its result.
C19_Witness ==
    \E r \in Resps :
        /\ resp[r].st = "C"
        /\ hist[r].out.tag = "Ok"
        /\ hist[r].args.svc > 0
        /\ Held(r) = {"cfut"}


C18_EventuallyReturns ==
    \A r \in Resps :
        (resp[r].st = "A") ~>
            (/\ resp[r].st = "C"
             /\ hist[r].calls = 1
             /\ \/ hist[r].out = PollOk(resp[r].cfut)
                \/ /\ hist[r].fail.at = "C"
                   /\ hist[r].out = PollErr(hist[r].fail.err))

\* A response whose readiness check was pending at first has returned the
\* service of its transform future.
C18_Witness ==
    \E r \in Resps :
        /\ hist[r].rseen = {"Pending", "Ready"}
        /\ hist[r].out = PollOk(resp[r].cfut)
        /\ resp[r].st = "C"

\* C13: ApplyConfigService::new_service borrows the pair exclusively (a
\* call made by the closure while it runs is refused with BorrowMutError
\* and returns no future), calls the closure once per call with the
\* configuration given and the shared inner service, returns the future
\* that call of the closure made, never calls the inner service's
\* poll_ready, and leaves the RefCell not borrowed.
C13_ImmediateNewService ==
    /\ \A p \in Dups :
          cells[p].kind = "service" =>
              /\ cells[p].t = 0
              /\ cells[p].borrow = 0
    /\ ilast.calls > 0 =>
          /\ cells[dup[ilast.h]].f = ilast.calls
          /\ IF ilast.beh = "plain"
             THEN /\ fault = "none"
                  /\ ilast.fut = [cfg |-> ilast.cfg, svc |-> dup[ilast.h],
                                  n |-> ilast.calls]
             ELSE /\ fault = "BorrowMutError"
                  /\ ilast.fut = NoIFut

\* The second call of new_service has returned the closure's second
\* future, built from the configuration of that call.
C13_Witness ==
    /\ ilast.calls = 2
    /\ ilast.beh = "plain"
    /\ ilast.fut = [cfg |-> "c2", svc |-> 1, n |-> 2]
    /\ cells[1].kind = "service"

\* The responses whose closure has been called.
Called == {r \in Resps : hist[r].calls > 0}

\* C14: every clone of an adapter, and every response made through one,
\* points to the allocation of the handle it was cloned from, so calls
\* made one after the other through any of them act on one pair: the
\* closure's count in that allocation is the number of calls made through
\* all handles together, the future a call returns comes from the
\* closure's next call after those of the calls before it, and the inner
\* factory's count is the number of responses made through all handles.
C14_ClonesShare ==
    /\ \A h \in Dups : dup[h] # 0 => dup[h] = dup[1]
    /\ \A r \in Resps : resp[r].st # "none" => rstore[r].ptr = dup[1]
    /\ cells[dup[1]].kind = "service" =>
          /\ cells[dup[1]].f = ilast.calls
          /\ (ilast.calls > 0 /\ fault = "none") =>
                ilast.fut.n = ilast.calls
    /\ cells[dup[1]].kind = "factory" =>
          /\ cells[dup[1]].t = Cardinality(Created)
          /\ cells[dup[1]].f = Cardinality(Called)
          /\ \A r \in Called : hist[r].calls = 1

\* Two responses made through two handles of a factory adapter have both
\* had the closure called.
C14_Witness ==
    \E r, q \in Resps :
        /\ rstore[r].via = 1 /\ rstore[q].via = 2
        /\ hist[r].out.tag = "Ok" /\ hist[q].out.tag = "Ok"
        /\ cells[1].f = 2
====
